---- MODULE Spec2Model ----
(***************************************************************************)
(* A model of the BoidNode core: the lock-free work queue and worker loop  *)
(* of boid_thread.h, the frame kernel update_sim of simulation.h, and the  *)
(* uniform-grid spatial hash of spatial_hash.h.                            *)
(*                                                                         *)
(* The specifications share the variables:                                 *)
(*   Spec          the thread pool driven by update_sim (one main thread,  *)
(*                 the worker threads, the chunk tasks, start of rebuild); *)
(*   SpecOneWorker the same with a single worker thread;                   *)
(*   SpecApi       the pool's calls made one after the other by a caller;  *)
(*   SpecKernel    the main loop's dt and one update_sim per step;         *)
(*   SpecMemory    one memory pool of memory_pool.h;                       *)
(*   SpecHash      the spatial hash as a sequential data structure: build, *)
(*                 rebuild and search over bounded integer positions;      *)
(*   SpecChunks    the chunk ranges update_sim prepares for its tasks;     *)
(*   SpecStaging   the staging buffer of one search call;                  *)
(*   SpecFrames    one worker and the main thread over several frames;     *)
(*   SpecShutdown  the frame followed by shutdown_thread_pool.             *)
(* Floating-point coordinates are modelled as integers: one unit is the    *)
(* cell_size argument handed to init/rebuild, so the grid cell edge        *)
(* (cell_size_multiplier times that argument) is two units.                *)
(***************************************************************************)
EXTENDS Integers, Sequences, FiniteSets, TLC

\* The thread pool (thread_pool and its work_queue), the threads (workers
\* 0..NumThreads-1 and the main thread), the history of the current reset
\* epoch, and the spatial hash.
VARIABLES head,               \* queue.head: producer cursor
    tail,               \* queue.tail: consumer cursor
    items,              \* queue.items: the ring of work_data, by slot
    items_added,        \* queue.items_added
    items_processed,    \* queue.items_processed
    active_threads,     \* count of workers between increment and decrement
    shutdown,           \* shutdown flag
    workCompleteEvent,  \* manual-reset event, TRUE when signaled
    workAvailableEvent, \* manual-reset event, TRUE when signaled
    \* ---- the threads: workers 0..NumThreads-1 and the main thread ----
    pc,                 \* where each thread stands
    index,              \* queue_try_get's local index of each consumer
    curr,               \* the slot of the work_data* each consumer holds
    task,               \* the chunk descriptor a running sim_work_func was given
    seen,               \* how often the last position read by the force pass had been advanced
    add_i,              \* update_sim's submit loop counter
    add_index,          \* queue_try_add's local index
    wait_exit,          \* how the last wait_for_completion returned
    num_iterations,     \* sim_data.num_iterations
    advanced,           \* per chunk range: position passes applied to its agents since update_sim was called
    \* ---- history of the current reset epoch ----
    claimed,            \* per queue index: how many consumers queue_try_get gave it to
    submitted,          \* per queue index: the item of the add_work call that obtained it
    called,             \* per consumer: the index it claimed and the item it read and invoked
    finished,           \* per chunk descriptor: completed runs of sim_work_func
    \* ---- spatial hash (SpecHash) ----
    h_pc,          \* "new" | "built" | "searched"
    h_builds,      \* number of init/rebuild calls made so far
    h_num,         \* num_positions handed to the last init/rebuild
    h_positions,   \* the caller's positions array handed to the last init/rebuild
    h_uninit,      \* what the never-written words of the hash's pool hold
    hash,          \* the spatial_hash structure
    h_query,       \* the arguments of the last search
    h_result,      \* result_indices[0 .. *result_count) of the last search
    \* ---- frame driver and simulation data (SpecKernel) ----
    k_pc,          \* "start" | "ready" | "updated"
    k_axis,        \* the coordinate axis the vectors of the run lie on
    k_in,          \* the inputs of the last frame: measured time, build, neighbour results
    dt,            \* WinMain's static dt
    current_time,  \* sim_data.current_time
    num_entities,  \* sim_data.num_entities
    components,    \* sim_data.components
    behaviours,    \* sim_data.behaviours
    positions,     \* sim_data.positions
    velocities,    \* sim_data.velocities
    \* ---- the pool as its callers see it (SpecApi) ----
    g_thread_pool, \* "null" | "live" | "freed": what the global pointer points at
    num_threads,   \* g_thread_pool->num_threads
    threads,       \* g_thread_pool->threads: TRUE where CreateThread gave a handle
    ret,           \* the value the last start_thread_pool or add_work returned
    \* ---- one mpool::memory_pool (SpecMemory) ----
    pool_memory,   \* pool.memory as an address, 0 for NULL
    pool_size,     \* pool.size
    pool_offset,   \* pool.offset
    ptr,           \* what the last get_bytes returned, 0 for NULL
    m_op,          \* the last call made on the pool
    bytes_requested, \* bytes_to_get of the last get_bytes
    returned,      \* the blocks get_bytes handed out since the last reset
    \* ---- the chunk descriptors of one update_sim (SpecChunks) ----
    c_pc,              \* "start" | "prepared"
    c_entities,        \* data->num_entities
    c_hw_threads,      \* g_thread_pool->num_threads
    thread_data_array, \* the descriptors update_sim prepares and submits
    \* ---- the staging buffer of one spatial_hash::search (SpecStaging) ----
    s_pc,               \* "scan" | "fault" | "done"
    local_result_count, \* entries held in local_result_indices
    result_count,       \* *result_count, the entries copied to the output
    max_store           \* highest index of local_result_indices the last step stored to

hvars == <<h_pc, h_builds, h_num, h_positions, h_uninit, hash, h_query, h_result>>

qvars == <<head, tail, items, items_added, items_processed, active_threads,
           shutdown, workCompleteEvent, workAvailableEvent>>
tvars == <<pc, index, curr, task, seen, add_i, add_index, wait_exit,
           num_iterations, advanced>>
gvars == <<claimed, submitted, called, finished>>
pvars == <<qvars, tvars, gvars>>

kvars == <<k_pc, k_axis, k_in, dt, current_time, num_entities, components,
           behaviours, positions, velocities>>

avars == <<g_thread_pool, num_threads, threads, ret>>

mvars == <<pool_memory, pool_size, pool_offset, ptr, m_op, bytes_requested,
           returned>>

cvars == <<c_pc, c_entities, c_hw_threads, thread_data_array>>

svars == <<s_pc, local_result_count, result_count, max_store>>

vars == <<pvars, hvars, kvars, avars, mvars, cvars, svars>>

----------------------------------------------------------------------------
(* Bounds of the hash model *)

MaxN == 2          \* largest num_positions (below 8: a cell never fills an AVX block)
XMax == 3          \* coordinates range over 0..XMax, 0..YMax, 0..ZMax
YMax == 1
ZMax == 1
MaxRadius == 2     \* search radii 1..MaxRadius
MaxRebuilds == 1   \* rebuild calls after init

\* Unsigned 32-bit arithmetic wraps. The model checker's integers are signed
\* 32-bit, so the wrap is modelled modulo 2^24: every unwrapped value of the
\* model is far below it, and a wrapped one far above every array bound.
U32 == 2^24
cell_size_multiplier == 2
CellSizeArg == 1

Axes == {"x", "y", "z"}
Points == [x : 0..XMax, y : 0..YMax, z : 0..ZMax]

SetMin(S) == CHOOSE m \in S : \A e \in S : m <= e
SetMax(S) == CHOOSE m \in S : \A e \in S : m >= e

\* ceilf(a / b) for a >= 0, b > 0
CeilDiv(a, b) == (a + b - 1) \div b

\* The contents of memory the code reads without having written it: the fresh
\* pages of a large allocation read as zero, stale contents can be anything.
UninitEntries ==
    [x : {0, XMax}, y : {0, YMax}, z : {0, ZMax}, id : 0..MaxN]

----------------------------------------------------------------------------
(* spatial_hash.h *)

compute_domain(n, pts) ==
    [min |-> [a \in Axes |-> SetMin({pts[i][a] : i \in 0..n-1})],
     max |-> [a \in Axes |-> SetMax({pts[i][a] : i \in 0..n-1})]]

\* h is a record with domain_min, domain_max; the result adds cell_size and
\* the three grid sizes.
set_grid_sizes(domain_min, domain_max, max_radius) ==
    LET cs == max_radius * cell_size_multiplier
    IN  [cell_size |-> cs,
         grid_size |-> [a \in Axes |-> CeilDiv(domain_max[a] - domain_min[a], cs)]]

get_cell_coordinates(h, pos) ==
    [a \in Axes |->
        LET shifted == pos[a] - h.domain_min[a]
            cell    == IF shifted <= 0 THEN 0 ELSE shifted \div h.cell_size
        IN  IF cell < h.grid_size[a] THEN cell ELSE (h.grid_size[a] - 1) % U32]

get_cell_index(h, c) ==
    (c.x + c.y * h.grid_size.x + c.z * h.grid_size.x * h.grid_size.y) % U32

calc_num_cells(h) ==
    (get_cell_index(h, h.grid_size) + 1) % U32

\* bin_positions_countsvals_worker over all jobs: cell_vals[i]
cell_value(h, pos) == get_cell_index(h, get_cell_coordinates(h, pos))

\* The slot offset the scatter loop derives from the counter of the cell:
\* InterlockedDecrement returns the decremented value.
scatter_offset(count) == (count - 1) + 1

RECURSIVE scatter(_, _, _, _, _, _)
scatter(i, n, src, cell_vals, cell_start, st) ==
    IF i >= n THEN st
    ELSE
        LET cell_id == cell_vals[i]
            offset  == scatter_offset(st.cell_counts[cell_id])
            dest    == cell_start[cell_id] + offset
            counts2 == [st.cell_counts EXCEPT ![cell_id] = @ - 1]
            \* a store past the last element lands in the padding that
            \* get_bytes leaves after an array of less than 8 words
            put(arr, v) == IF dest \in DOMAIN arr THEN [arr EXCEPT ![dest] = v] ELSE arr
        IN  scatter(i + 1, n, src, cell_vals, cell_start,
                    [cell_counts       |-> counts2,
                     temp_position_x   |-> put(st.temp_position_x, src.position_x[i]),
                     temp_position_y   |-> put(st.temp_position_y, src.position_y[i]),
                     temp_position_z   |-> put(st.temp_position_z, src.position_z[i]),
                     temp_original_ids |-> put(st.temp_original_ids, src.original_ids[i])])

\* build: the copy of the positions, the domain, the grid and bin_positions.
\* uninit is what the never-written memory of the temporary arrays holds.
build(cell_size, n, initial_positions, uninit) ==
    LET src == [position_x   |-> [i \in 0..n-1 |-> initial_positions[i].x],
                position_y   |-> [i \in 0..n-1 |-> initial_positions[i].y],
                position_z   |-> [i \in 0..n-1 |-> initial_positions[i].z],
                original_ids |-> [i \in 0..n-1 |-> i]]
        dom == compute_domain(n, initial_positions)
        g   == set_grid_sizes(dom.min, dom.max, cell_size)
        h0  == [domain_min |-> dom.min, domain_max |-> dom.max,
                cell_size |-> g.cell_size, grid_size |-> g.grid_size]
        num_cells == calc_num_cells(h0)
        cell_vals == [i \in 0..n-1 |-> cell_value(h0, initial_positions[i])]
        \* a cell value outside cell_counts[0..num_cells): the increment is a
        \* wild store
        wild == \E i \in 0..n-1 : cell_vals[i] >= num_cells
    IN  IF wild
        THEN h0 @@
             [fault |-> TRUE, num_positions |-> n, num_cells |-> num_cells,
              position_x |-> src.position_x, position_y |-> src.position_y,
              position_z |-> src.position_z, original_ids |-> src.original_ids,
              cell_start |-> <<>>, cell_end |-> <<>>]
        ELSE
        LET cell_counts == [c \in 0..num_cells-1 |->
                               Cardinality({i \in 0..n-1 : cell_vals[i] = c})]
            cell_start[c \in 0..num_cells-1] ==
                IF c = 0 THEN 0 ELSE cell_start[c-1] + cell_counts[c-1]
            cell_end == [c \in 0..num_cells-1 |-> cell_start[c] + cell_counts[c]]
            t0 == [cell_counts       |-> cell_counts,
                   temp_position_x   |-> [k \in 0..n-1 |-> uninit.x],
                   temp_position_y   |-> [k \in 0..n-1 |-> uninit.y],
                   temp_position_z   |-> [k \in 0..n-1 |-> uninit.z],
                   temp_original_ids |-> [k \in 0..n-1 |-> uninit.id]]
            t  == scatter(0, n, src, cell_vals, cell_start, t0)
        IN  h0 @@
            [fault |-> FALSE, num_positions |-> n, num_cells |-> num_cells,
             position_x |-> t.temp_position_x, position_y |-> t.temp_position_y,
             position_z |-> t.temp_position_z, original_ids |-> t.temp_original_ids,
             cell_start |-> cell_start, cell_end |-> cell_end]

\* The entries of one cell that pass the distance test, in array order.
RECURSIVE cell_matches(_, _, _, _, _)
cell_matches(h, i, end, position, radius_sq) ==
    IF i >= end THEN <<>>
    ELSE
        LET dx == h.position_x[i] - position.x
            dy == h.position_y[i] - position.y
            dz == h.position_z[i] - position.z
            dist_squared == dx * dx + dy * dy + dz * dz
        IN  (IF dist_squared <= radius_sq THEN <<h.original_ids[i]>> ELSE <<>>)
            \o cell_matches(h, i + 1, end, position, radius_sq)

\* The z, y, x loops of search from cell (x, y, z) on.
RECURSIVE search_cells(_, _, _, _, _, _, _)
search_cells(h, position, radius_sq, lo, hi, x, yz) ==
    \* yz = <<y, z>>
    IF yz[2] > hi.z THEN <<>>
    ELSE IF yz[1] > hi.y THEN search_cells(h, position, radius_sq, lo, hi, lo.x, <<lo.y, yz[2] + 1>>)
    ELSE IF x > hi.x THEN search_cells(h, position, radius_sq, lo, hi, lo.x, <<yz[1] + 1, yz[2]>>)
    ELSE
        LET cell_index == get_cell_index(h, [x |-> x, y |-> yz[1], z |-> yz[2]])
            start == h.cell_start[cell_index]
            end   == h.cell_end[cell_index]
            here  == IF start = U32 - 1 THEN <<>>
                     ELSE cell_matches(h, start, end, position, radius_sq)
        IN  here \o search_cells(h, position, radius_sq, lo, hi, x + 1, yz)

search(h, position, radius) ==
    LET radius_sq   == radius * radius
        cell_coords == get_cell_coordinates(h, position)
        offset_up   == CeilDiv(radius, h.cell_size)
        offset_down == - CeilDiv(radius, h.cell_size)
        lo == [a \in Axes |-> IF cell_coords[a] + offset_down > 0
                              THEN cell_coords[a] + offset_down ELSE 0]
        hi == [a \in Axes |-> IF cell_coords[a] + offset_up < h.grid_size[a] - 1
                              THEN cell_coords[a] + offset_up ELSE h.grid_size[a] - 1]
    IN  search_cells(h, position, radius_sq, lo, hi, lo.x, <<lo.y, lo.z>>)

----------------------------------------------------------------------------
(* SpecHash: init, rebuild and search *)

NoHash == [fault |-> FALSE, num_positions |-> 0]
NoQuery == [position |-> [x |-> 0, y |-> 0, z |-> 0], radius |-> 0]

HashInit ==
    /\ h_pc = "new"
    /\ h_builds = 0
    /\ h_num = 0
    /\ h_positions = <<>>
    /\ h_uninit = [x |-> 0, y |-> 0, z |-> 0, id |-> 0]
    /\ hash = NoHash
    /\ h_query = NoQuery
    /\ h_result = <<>>

\* spatial_hash::init(hash, cell_size, num_positions, initial_positions)
HInit ==
    /\ h_pc = "new"
    /\ \E n \in 1..MaxN : \E ps \in [0..n-1 -> Points] : \E u \in UninitEntries :
          /\ h_num' = n
          /\ h_positions' = ps
          /\ h_uninit' = u
          /\ hash' = build(CellSizeArg, n, ps, u)
    /\ h_pc' = "built"
    /\ h_builds' = 1
    /\ UNCHANGED <<h_query, h_result>>

\* spatial_hash::rebuild(hash, cell_size, num_positions, initial_positions):
\* the caller's array holds new values, the pool is reset and build runs again.
\* With num_positions < 8 and fewer than 8 cells every array of the pool takes
\* one 32-byte block, so the arrays lie where they lay before and a word no
\* build writes still holds what it held at init.
HRebuild ==
    /\ h_pc = "built"
    /\ ~hash.fault
    /\ h_builds <= MaxRebuilds
    /\ \E ps \in [0..h_num-1 -> Points] :
          /\ h_positions' = ps
          /\ hash' = build(CellSizeArg, h_num, ps, h_uninit)
    /\ h_builds' = h_builds + 1
    /\ UNCHANGED <<h_pc, h_num, h_uninit, h_query, h_result>>

\* spatial_hash::search(hash, position, radius, result_indices, result_count)
HSearch ==
    /\ h_pc = "built"
    /\ ~hash.fault
    /\ \E q \in Points : \E r \in 1..MaxRadius :
          /\ h_query' = [position |-> q, radius |-> r]
          /\ h_result' = search(hash, q, r)
    /\ h_pc' = "searched"
    /\ UNCHANGED <<h_builds, h_num, h_positions, h_uninit, hash>>

HashNext == HInit \/ HRebuild \/ HSearch

----------------------------------------------------------------------------
(* Bounds of the thread-pool model *)

NumThreads == 2        \* worker threads started by start_thread_pool
MaxWorkOrders == 2     \* max_work_orders handed to start_thread_pool
NumEntities == 144     \* sim_data.num_entities
MaxFrames == 1         \* update_sim calls made by the main loop

tasks_per_thread == 12
min_entities_per_task == 48
sim_thread_data_bytes == 16
thread_data_pool_bytes == 1024 * 1024

Workers == 0..NumThreads-1
MAIN == -1                       \* the thread id execute_next_work_item passes
Consumers == Workers \cup {MAIN}
Agents == 0..NumEntities-1

\* start_thread_pool: the smallest power of two >= 2 * max_work_orders
RECURSIVE queue_size_from(_, _)
queue_size_from(queue_size, max_work_orders) ==
    IF queue_size < max_work_orders * 2
    THEN queue_size_from(queue_size * 2, max_work_orders)
    ELSE queue_size
QueueSize == queue_size_from(1, MaxWorkOrders)
Slot(i) == i % QueueSize         \* index & mask

\* update_sim: the number of chunk tasks for n entities and hw_threads workers
work_orders_for(n, hw_threads) ==
    LET max_tasks == thread_data_pool_bytes \div sim_thread_data_bytes
        hw        == hw_threads * tasks_per_thread
        n0        == IF hw > max_tasks THEN max_tasks ELSE hw
        by_min    == n \div min_entities_per_task
    IN  IF n \div n0 < min_entities_per_task
        THEN (IF by_min = 0 THEN 1 ELSE by_min)
        ELSE n0

\* update_sim: the number of chunk tasks and the entities per task
num_work_orders == work_orders_for(NumEntities, NumThreads)
num_entities_per_order == NumEntities \div num_work_orders
start_index(i) == i * num_entities_per_order
end_index(i) ==
    IF i = num_work_orders - 1 THEN NumEntities ELSE (i + 1) * num_entities_per_order
Orders == 0..num_work_orders-1    \* the chunk descriptors thread_data[i]
Chunk(i) == {a \in Agents : start_index(i) <= a /\ a < end_index(i)}

\* The queue indices a consumer can hold within the bounds.
Indices == (0 - NumThreads - 2)..(num_work_orders + NumThreads + 2)

Uninit == [func |-> "uninit", data |-> -1]     \* a slot no add_work has written
NoItem == [func |-> "none", data |-> -1]
SimWork(i) == [func |-> "sim_work_func", data |-> i]

work_remaining == tail < head

----------------------------------------------------------------------------
(* boid_thread.h: queue_try_get, run by a worker (get_work_data) and by the
   main thread (execute_next_work_item) *)

Miss(c) == IF c = MAIN THEN "wait_check" ELSE "try_wait"
Hit(c)  == IF c = MAIN THEN "call" ELSE "activate"

\* if (q->tail >= q->head) return nullptr;
GetCheck(c) ==
    /\ pc[c] = "get_check"
    /\ pc' = [pc EXCEPT ![c] = IF tail >= head THEN Miss(c) ELSE "get_claim"]
    /\ UNCHANGED <<qvars, index, curr, task, seen, add_i, add_index, wait_exit,
                   num_iterations, advanced, gvars>>

\* LONG index = InterlockedIncrement(&q->tail) - 1;
GetClaim(c) ==
    /\ pc[c] = "get_claim"
    /\ index' = [index EXCEPT ![c] = tail]
    /\ tail' = tail + 1
    /\ pc' = [pc EXCEPT ![c] = "get_verify"]
    /\ UNCHANGED <<head, items, items_added, items_processed, active_threads,
                   shutdown, workCompleteEvent, workAvailableEvent, curr, task,
                   seen, add_i, add_index, wait_exit, num_iterations, advanced,
                   gvars>>

\* The test of the claimed index against head.
RacedPastHead(i) == i >= head

\* if (index >= q->head) undo; else the slot index & mask is handed out
GetVerify(c) ==
    /\ pc[c] = "get_verify"
    /\ IF RacedPastHead(index[c])
       THEN /\ pc' = [pc EXCEPT ![c] = "get_undo"]
            /\ UNCHANGED <<items_processed, curr, claimed>>
       ELSE /\ items_processed' = items_processed + 1
            /\ curr' = [curr EXCEPT ![c] = Slot(index[c])]
            /\ claimed' = [claimed EXCEPT ![index[c]] = @ + 1]
            /\ pc' = [pc EXCEPT ![c] = Hit(c)]
    /\ UNCHANGED <<head, tail, items, items_added, active_threads, shutdown,
                   workCompleteEvent, workAvailableEvent, index, task, seen,
                   add_i, add_index, wait_exit, num_iterations, advanced,
                   submitted, called, finished>>

\* InterlockedDecrement(&q->tail); return nullptr;
GetUndo(c) ==
    /\ pc[c] = "get_undo"
    /\ tail' = tail - 1
    /\ pc' = [pc EXCEPT ![c] = Miss(c)]
    /\ UNCHANGED <<head, items, items_added, items_processed, active_threads,
                   shutdown, workCompleteEvent, workAvailableEvent, index, curr,
                   task, seen, add_i, add_index, wait_exit, num_iterations,
                   advanced, gvars>>

----------------------------------------------------------------------------
(* boid_thread.h: thread_function *)

\* while (!g_thread_pool->shutdown)
WorkerLoop(w) ==
    /\ pc[w] = "loop"
    /\ pc' = [pc EXCEPT ![w] = IF shutdown = 1 THEN "exit" ELSE "get_check"]
    /\ UNCHANGED <<qvars, index, curr, task, seen, add_i, add_index, wait_exit,
                   num_iterations, advanced, gvars>>

\* InterlockedIncrement(&g_thread_pool->active_threads);
WorkerActivate(w) ==
    /\ pc[w] = "activate"
    /\ active_threads' = active_threads + 1
    /\ pc' = [pc EXCEPT ![w] = "call"]
    /\ UNCHANGED <<head, tail, items, items_added, items_processed, shutdown,
                   workCompleteEvent, workAvailableEvent, index, curr, task,
                   seen, add_i, add_index, wait_exit, num_iterations, advanced,
                   gvars>>

\* mpool::reset(arena); curr->func(curr->data, thread_id, arena): the consumer
\* reads func and data from the slot it holds. A slot no add_work has written
\* holds no function: the call through it is a fault of that thread.
Call(c) ==
    /\ pc[c] = "call"
    /\ called' = [called EXCEPT ![c] = [index |-> index[c], item |-> items[curr[c]]]]
    /\ IF items[curr[c]].func = "sim_work_func"
       THEN /\ task' = [task EXCEPT ![c] = items[curr[c]].data]
            /\ pc' = [pc EXCEPT ![c] = "force"]
       ELSE /\ pc' = [pc EXCEPT ![c] = "fault"]
            /\ UNCHANGED task
    /\ UNCHANGED <<qvars, index, curr, seen, add_i, add_index, wait_exit,
                   num_iterations, advanced, claimed, submitted, finished>>

\* if (InterlockedDecrement(&g_thread_pool->active_threads) == 0 && ...
WorkerDeactivate(w) ==
    /\ pc[w] = "deactivate"
    /\ active_threads' = active_threads - 1
    /\ pc' = [pc EXCEPT ![w] = IF active_threads - 1 = 0 THEN "signal" ELSE "loop"]
    /\ UNCHANGED <<head, tail, items, items_added, items_processed, shutdown,
                   workCompleteEvent, workAvailableEvent, index, curr, task,
                   seen, add_i, add_index, wait_exit, num_iterations, advanced,
                   gvars>>

\* ... && !work_remaining()) SetEvent(workCompleteEvent);
WorkerSignal(w) ==
    /\ pc[w] = "signal"
    /\ workCompleteEvent' = IF ~work_remaining THEN TRUE ELSE workCompleteEvent
    /\ pc' = [pc EXCEPT ![w] = "loop"]
    /\ UNCHANGED <<head, tail, items, items_added, items_processed,
                   active_threads, shutdown, workAvailableEvent, index, curr,
                   task, seen, add_i, add_index, wait_exit, num_iterations,
                   advanced, gvars>>

\* try_wait: the spin and yield tiers touch nothing shared; the long tier
\* resets workAvailableEvent when it sees the pool idle, then waits at most
\* 1 ms on it. spin_count only selects the tier.
TryWait(w) ==
    /\ pc[w] = "try_wait"
    /\ \/ UNCHANGED workAvailableEvent
       \/ workAvailableEvent' =
             IF ~work_remaining /\ active_threads = 0 THEN FALSE ELSE workAvailableEvent
    /\ pc' = [pc EXCEPT ![w] = "loop"]
    /\ UNCHANGED <<head, tail, items, items_added, items_processed,
                   active_threads, shutdown, workCompleteEvent, index, curr,
                   task, seen, add_i, add_index, wait_exit, num_iterations,
                   advanced, gvars>>

----------------------------------------------------------------------------
(* simulation.h: sim_work_func -> update_sim_block, run by whoever called it *)

\* First loop: forces and velocities of the chunk. boid_process_neighbors
\* reads positions[neighbor_idx] for the indices search reported; which agents
\* are neighbours is an input, so the read of an agent of any chunk range j is
\* possible.
ForcePass(c) ==
    /\ pc[c] = "force"
    /\ \E j \in Orders : seen' = [seen EXCEPT ![c] = advanced[j]]
    /\ pc' = [pc EXCEPT ![c] = "move"]
    /\ UNCHANGED <<qvars, index, curr, task, add_i, add_index, wait_exit,
                   num_iterations, advanced, gvars>>

\* Second loop: positions[i] += velocities[i] * dt over [start_index, end_index);
\* then sim_work_func returns to its caller.
PositionPass(c) ==
    /\ pc[c] = "move"
    /\ advanced' = [advanced EXCEPT ![task[c]] = @ + 1]
    /\ finished' = [finished EXCEPT ![task[c]] = @ + 1]
    /\ seen' = [seen EXCEPT ![c] = 0]
    /\ pc' = [pc EXCEPT ![c] = IF c = MAIN THEN "get_check" ELSE "deactivate"]
    /\ UNCHANGED <<qvars, index, curr, task, add_i, add_index, wait_exit,
                   num_iterations, claimed, submitted, called>>

----------------------------------------------------------------------------
(* simulation.h: update_sim, run by the main thread *)

\* data->num_iterations++ and the chunk arithmetic
UpdateBegin ==
    /\ pc[MAIN] = "update_sim"
    /\ num_iterations' = num_iterations + 1
    /\ advanced' = [i \in Orders |-> 0]
    /\ finished' = [i \in Orders |-> 0]
    /\ pc' = [pc EXCEPT ![MAIN] = "reset_head"]
    /\ UNCHANGED <<qvars, index, curr, task, seen, add_i, add_index, wait_exit,
                   claimed, submitted, called>>

\* reset_work: g_thread_pool->queue.head = 0 (inside the spinlock only the
\* main thread ever takes); a new epoch of queue indices starts
ResetHead ==
    /\ pc[MAIN] = "reset_head"
    /\ head' = 0
    /\ claimed' = [i \in Indices |-> 0]
    /\ submitted' = [i \in Indices |-> NoItem]
    /\ pc' = [pc EXCEPT ![MAIN] = "reset_tail"]
    /\ UNCHANGED <<tail, items, items_added, items_processed, active_threads,
                   shutdown, workCompleteEvent, workAvailableEvent, index, curr,
                   task, seen, add_i, add_index, wait_exit, num_iterations,
                   advanced, called, finished>>

\* queue.tail = 0; items_processed = 0; items_added = 0
ResetTail ==
    /\ pc[MAIN] = "reset_tail"
    /\ tail' = 0
    /\ items_processed' = 0
    /\ items_added' = 0
    /\ pc' = [pc EXCEPT ![MAIN] = "reset_active"]
    /\ UNCHANGED <<head, items, active_threads, shutdown, workCompleteEvent,
                   workAvailableEvent, index, curr, task, seen, add_i, add_index,
                   wait_exit, num_iterations, advanced, gvars>>

\* g_thread_pool->active_threads = 0
ResetActive ==
    /\ pc[MAIN] = "reset_active"
    /\ active_threads' = 0
    /\ pc' = [pc EXCEPT ![MAIN] = "reset_events"]
    /\ UNCHANGED <<head, tail, items, items_added, items_processed, shutdown,
                   workCompleteEvent, workAvailableEvent, index, curr, task,
                   seen, add_i, add_index, wait_exit, num_iterations, advanced,
                   gvars>>

\* SetEvent(workCompleteEvent); ResetEvent(workAvailableEvent); then the task
\* descriptors are prepared and the submit loop starts
ResetEvents ==
    /\ pc[MAIN] = "reset_events"
    /\ workCompleteEvent' = TRUE
    /\ workAvailableEvent' = FALSE
    /\ add_i' = 0
    /\ pc' = [pc EXCEPT ![MAIN] = "add_claim"]
    /\ UNCHANGED <<head, tail, items, items_added, items_processed,
                   active_threads, shutdown, index, curr, task, seen, add_index,
                   wait_exit, num_iterations, advanced, gvars>>

\* queue_try_add: LONG index = InterlockedIncrement(&q->head) - 1;
AddClaim ==
    /\ pc[MAIN] = "add_claim"
    /\ add_index' = head
    /\ head' = head + 1
    /\ submitted' = [submitted EXCEPT ![head] = SimWork(add_i)]
    /\ pc' = [pc EXCEPT ![MAIN] = "add_store"]
    /\ UNCHANGED <<tail, items, items_added, items_processed, active_threads,
                   shutdown, workCompleteEvent, workAvailableEvent, index, curr,
                   task, seen, add_i, wait_exit, num_iterations, advanced,
                   claimed, called, finished>>

\* q->items[slot].func = func; .data = data; .priority = priority;
AddStore ==
    /\ pc[MAIN] = "add_store"
    /\ items' = [items EXCEPT ![Slot(add_index)] = SimWork(add_i)]
    /\ pc' = [pc EXCEPT ![MAIN] = "add_signal"]
    /\ UNCHANGED <<head, tail, items_added, items_processed, active_threads,
                   shutdown, workCompleteEvent, workAvailableEvent, index, curr,
                   task, seen, add_i, add_index, wait_exit, num_iterations,
                   advanced, gvars>>

\* InterlockedIncrement(&q->items_added); SetEvent(workAvailableEvent);
AddSignal ==
    /\ pc[MAIN] = "add_signal"
    /\ items_added' = items_added + 1
    /\ workAvailableEvent' = TRUE
    /\ pc' = [pc EXCEPT ![MAIN] = "add_reset"]
    /\ UNCHANGED <<head, tail, items, items_processed, active_threads, shutdown,
                   workCompleteEvent, index, curr, task, seen, add_i, add_index,
                   wait_exit, num_iterations, advanced, gvars>>

\* add_work: ResetEvent(workCompleteEvent); then the next i of the submit loop
AddReset ==
    /\ pc[MAIN] = "add_reset"
    /\ workCompleteEvent' = FALSE
    /\ add_i' = add_i + 1
    /\ pc' = [pc EXCEPT ![MAIN] =
                 IF add_i + 1 < num_work_orders THEN "add_claim" ELSE "wait_first"]
    /\ UNCHANGED <<head, tail, items, items_added, items_processed,
                   active_threads, shutdown, workAvailableEvent, index, curr,
                   task, seen, add_index, wait_exit, num_iterations, advanced,
                   gvars>>

----------------------------------------------------------------------------
(* boid_thread.h: wait_for_completion, run by the main thread *)

\* What wait_for_completion takes for "all work is complete".
Drained == ~work_remaining /\ active_threads = 0

\* if (!work_remaining() && active_threads == 0) return;
WaitFirst ==
    /\ pc[MAIN] = "wait_first"
    /\ IF Drained
       THEN /\ wait_exit' = "idle"
            /\ pc' = [pc EXCEPT ![MAIN] = "rebuild"]
       ELSE /\ wait_exit' = "waiting"
            /\ pc' = [pc EXCEPT ![MAIN] = "get_check"]
    /\ UNCHANGED <<qvars, index, curr, task, seen, add_i, add_index,
                   num_iterations, advanced, gvars>>

\* execute_next_work_item() found nothing: the completion test of the loop
WaitCheck ==
    /\ pc[MAIN] = "wait_check"
    /\ IF Drained
       THEN /\ wait_exit' = "drained"
            /\ pc' = [pc EXCEPT ![MAIN] = "rebuild"]
       ELSE /\ UNCHANGED wait_exit
            /\ pc' = [pc EXCEPT ![MAIN] = "wait_backoff"]
    /\ UNCHANGED <<qvars, index, curr, task, seen, add_i, add_index,
                   num_iterations, advanced, gvars>>

\* The adaptive wait: below 50 ms elapsed a pause or a yield; from 50 ms on a
\* 1 ms wait on workCompleteEvent, which ends the call when the event is
\* signaled, and otherwise ends it once more than timeout_ms have elapsed.
WaitBackoff ==
    /\ pc[MAIN] = "wait_backoff"
    /\ \/ /\ pc' = [pc EXCEPT ![MAIN] = "get_check"]
          /\ UNCHANGED wait_exit
       \/ /\ workCompleteEvent
          /\ wait_exit' = "event"
          /\ pc' = [pc EXCEPT ![MAIN] = "rebuild"]
       \/ /\ ~workCompleteEvent
          /\ wait_exit' = "timeout"
          /\ pc' = [pc EXCEPT ![MAIN] = "rebuild"]
    /\ UNCHANGED <<qvars, index, curr, task, seen, add_i, add_index,
                   num_iterations, advanced, gvars>>

\* update_sim after the wait: spatial_hash::rebuild resets the hash's pool and
\* refills the hash from data->positions
RebuildBegin ==
    /\ pc[MAIN] = "rebuild"
    /\ pc' = [pc EXCEPT ![MAIN] = "rebuilding"]
    /\ UNCHANGED <<qvars, index, curr, task, seen, add_i, add_index, wait_exit,
                   num_iterations, advanced, gvars>>

\* rebuild returns, update_sim returns; the main loop calls it again next frame
RebuildEnd ==
    /\ pc[MAIN] = "rebuilding"
    /\ pc' = [pc EXCEPT ![MAIN] =
                 IF num_iterations < MaxFrames THEN "update_sim" ELSE "done"]
    /\ UNCHANGED <<qvars, index, curr, task, seen, add_i, add_index, wait_exit,
                   num_iterations, advanced, gvars>>

----------------------------------------------------------------------------
(* The pool and the frame: initial state and next-state relation *)

\* The state start_thread_pool leaves (queue.items is malloc'ed, not cleared)
\* with the workers started and the main thread about to call update_sim.
PoolInit ==
    /\ head = 0
    /\ tail = 0
    /\ items = [s \in 0..QueueSize-1 |-> Uninit]
    /\ items_added = 0
    /\ items_processed = 0
    /\ active_threads = 0
    /\ shutdown = 0
    /\ workCompleteEvent = TRUE
    /\ workAvailableEvent = FALSE
    /\ pc = [c \in Consumers |-> IF c = MAIN THEN "update_sim" ELSE "loop"]
    /\ index = [c \in Consumers |-> 0]
    /\ curr = [c \in Consumers |-> 0]
    /\ task = [c \in Consumers |-> 0]
    /\ seen = [c \in Consumers |-> 0]
    /\ add_i = 0
    /\ add_index = 0
    /\ wait_exit = "none"
    /\ num_iterations = 0
    /\ advanced = [i \in Orders |-> 0]
    /\ claimed = [i \in Indices |-> 0]
    /\ submitted = [i \in Indices |-> NoItem]
    /\ called = [c \in Consumers |-> [index |-> 0, item |-> NoItem]]
    /\ finished = [i \in Orders |-> 0]

MaxFramesAgain == 2    \* update_sim calls of the main loop in SpecFrames

\* the main loop goes round: update_sim is called for the next frame
NextFrame ==
    /\ pc[MAIN] = "rebuilding"
    /\ num_iterations < MaxFramesAgain
    /\ pc' = [pc EXCEPT ![MAIN] = "update_sim"]
    /\ UNCHANGED <<qvars, index, curr, task, seen, add_i, add_index, wait_exit,
                   num_iterations, advanced, gvars>>

Consumer(c) ==
    \/ GetCheck(c) \/ GetClaim(c) \/ GetVerify(c) \/ GetUndo(c)
    \/ Call(c) \/ ForcePass(c) \/ PositionPass(c)

Worker(w) ==
    \/ WorkerLoop(w) \/ WorkerActivate(w) \/ WorkerDeactivate(w)
    \/ WorkerSignal(w) \/ TryWait(w)

MainThread ==
    \/ UpdateBegin \/ ResetHead \/ ResetTail \/ ResetActive \/ ResetEvents
    \/ AddClaim \/ AddStore \/ AddSignal \/ AddReset
    \/ WaitFirst \/ WaitCheck \/ WaitBackoff
    \/ RebuildBegin \/ RebuildEnd

PoolNext ==
    \/ \E c \in Consumers : Consumer(c)
    \/ \E w \in Workers : Worker(w)
    \/ MainThread

----------------------------------------------------------------------------
(* boid_thread.h: shutdown_thread_pool, called by the main thread after the
   main loop (SpecShutdown) *)

AllExited == \A w \in Workers : pc[w] = "exit"

\* g_thread_pool->shutdown = 1;
ShutdownSet ==
    /\ pc[MAIN] = "done"
    /\ g_thread_pool = "live"
    /\ shutdown' = 1
    /\ pc' = [pc EXCEPT ![MAIN] = "shutdown_wake"]
    /\ UNCHANGED <<head, tail, items, items_added, items_processed,
                   active_threads, workCompleteEvent, workAvailableEvent, index,
                   curr, task, seen, add_i, add_index, wait_exit, num_iterations,
                   advanced, gvars, avars>>

\* SetEvent(g_thread_pool->workAvailableEvent);
ShutdownWake ==
    /\ pc[MAIN] = "shutdown_wake"
    /\ workAvailableEvent' = TRUE
    /\ pc' = [pc EXCEPT ![MAIN] = "shutdown_join"]
    /\ UNCHANGED <<head, tail, items, items_added, items_processed,
                   active_threads, shutdown, workCompleteEvent, index, curr,
                   task, seen, add_i, add_index, wait_exit, num_iterations,
                   advanced, gvars, avars>>

\* WaitForMultipleObjects(num_threads, threads, TRUE, 1000): it returns when
\* every worker has left thread_function, or when 1000 ms have passed.
ShutdownJoin ==
    /\ pc[MAIN] = "shutdown_join"
    /\ \/ AllExited
       \/ ~AllExited
    /\ pc' = [pc EXCEPT ![MAIN] = "shutdown_free"]
    /\ UNCHANGED <<qvars, index, curr, task, seen, add_i, add_index, wait_exit,
                   num_iterations, advanced, gvars, avars>>

\* the handles are closed, the arenas deallocated, threads, queue.items,
\* thread_transient_memory and the pool freed
ShutdownFree ==
    /\ pc[MAIN] = "shutdown_free"
    /\ g_thread_pool' = "freed"
    /\ pc' = [pc EXCEPT ![MAIN] = "shutdown_null"]
    /\ UNCHANGED <<qvars, index, curr, task, seen, add_i, add_index, wait_exit,
                   num_iterations, advanced, gvars, num_threads, threads, ret>>

\* g_thread_pool = nullptr;
ShutdownNull ==
    /\ pc[MAIN] = "shutdown_null"
    /\ g_thread_pool' = "null"
    /\ pc' = [pc EXCEPT ![MAIN] = "shutdown_done"]
    /\ UNCHANGED <<qvars, index, curr, task, seen, add_i, add_index, wait_exit,
                   num_iterations, advanced, gvars, num_threads, threads, ret>>

shutdown_thread_pool ==
    ShutdownSet \/ ShutdownWake \/ ShutdownJoin \/ ShutdownFree \/ ShutdownNull

----------------------------------------------------------------------------
(* The frame driver of main.cpp and the kernel of simulation.h as a
   sequential computation (SpecKernel).

   A float is modelled in fixed point: the integer q stands for q / Scale.
   Vectors lie on one coordinate axis (k_axis), where the Euclidean length is
   the absolute value of the one component and every quotient below is exact. *)

Scale == 20000

MaxKernelEntities == 1    \* num_entities ranges over 0..MaxKernelEntities
MaxKernelFrames == 2      \* main-loop iterations
MeasuredMs == {0, 16, 33} \* current_time - last_time of a frame, in ms

g_max_vel == 10000        \* 0.5
g_min_vel == 3000         \* 0.15
g_max_acc == 5000         \* 0.25
time_step == 320          \* 0.016, data.time_step
MinDt == 320              \* 0.016f, the floor of the frame driver
InitialDt == 333          \* 1.0f / 60.f
EpsLenSq == 1000000       \* the 1e-6f of normalize_avx2, as a divisor of 1

SIM_COMPONENT_SPATIAL == 1
SIM_COMPONENT_BOID == 2
BOID_TYPE_SEEK == 1
BOID_TYPE_FLEE == 2
BOID_TYPE_ALIGN == 4

HasFlag(mask, flag) == (mask \div flag) % 2 = 1

Abs(x) == IF x < 0 THEN 0 - x ELSE x
fmul(a, b) == (a * b) \div Scale      \* a * b
fdiv(a, b) == (a * Scale) \div b      \* a / b
MsToSeconds(ms) == (ms * Scale) \div 1000

Zero3 == [a \in Axes |-> 0]
Along(ax, s) == [a \in Axes |-> IF a = ax THEN s ELSE 0]
v3_add(a, b) == [c \in Axes |-> a[c] + b[c]]
v3_scale(v, s) == [c \in Axes |-> fmul(v[c], s)]

\* v.x * v.x + v.y * v.y + v.z * v.z
sq_mag(v) == fmul(v.x, v.x) + fmul(v.y, v.y) + fmul(v.z, v.z)

\* sqrt(v.x * v.x + v.y * v.y + v.z * v.z) of a vector on one axis
v3_length(v) == Abs(v.x) + Abs(v.y) + Abs(v.z)

\* v3::clamp
clamp(v, max_length) ==
    LET len == v3_length(v)
    IN  IF len > max_length
        THEN [c \in Axes |-> fmul(fdiv(v[c], len), max_length)]
        ELSE v

\* v3::normalize: normalize_avx2 where HAS_AVX2 is 1 (it returns v when the
\* squared length is below 1e-6), the scalar code otherwise (it returns v when
\* the length is 0).
normalize(v, has_avx2) ==
    LET len == v3_length(v)
        untouched == IF has_avx2
                     THEN v.x * v.x + v.y * v.y + v.z * v.z < (Scale * Scale) \div EpsLenSq
                     ELSE len = 0
    IN  IF untouched THEN v ELSE [c \in Axes |-> fdiv(v[c], len)]

\* update_sim_block, first loop, for one entity. res holds what
\* boid_process_neighbors left in seek_result, flee_result and align_result.
force_pass(velocity, entity_components, entity_behaviours, res, delta_time, has_avx2) ==
    IF ~HasFlag(entity_components, SIM_COMPONENT_SPATIAL) THEN velocity
    ELSE IF /\ ~HasFlag(entity_behaviours, BOID_TYPE_SEEK)
            /\ ~HasFlag(entity_behaviours, BOID_TYPE_FLEE)
            /\ ~HasFlag(entity_behaviours, BOID_TYPE_ALIGN) THEN velocity
    ELSE
        LET a1 == IF HasFlag(entity_behaviours, BOID_TYPE_SEEK) THEN res.seek ELSE Zero3
            a2 == IF HasFlag(entity_behaviours, BOID_TYPE_FLEE)
                  THEN v3_add(a1, res.flee) ELSE a1
            a3 == IF HasFlag(entity_behaviours, BOID_TYPE_ALIGN)
                  THEN v3_add(a2, res.align) ELSE a2
            acceleration == clamp(a3, g_max_acc)
            v1 == v3_add(velocity, v3_scale(acceleration, delta_time))
            v2 == clamp(v1, g_max_vel)
            min_vel_sq == fmul(g_min_vel, g_min_vel)
        IN  IF sq_mag(v2) < min_vel_sq
            THEN v3_scale(normalize(v2, has_avx2), g_min_vel)
            ELSE v2

\* update_sim_block, second loop, for one entity
position_pass(position, velocity, delta_time) ==
    v3_add(position, v3_scale(velocity, delta_time))

\* sim_work_func: the step update_sim_block is called with
block_delta_time(delta_time) == time_step

\* main.cpp, one loop iteration: the static dt is floored, then overwritten by
\* the measured frame time, and that value goes to update_sim.
frame_dt(static_dt, measured_ms) ==
    LET floored == IF static_dt < MinDt THEN MinDt ELSE static_dt
    IN  MsToSeconds(measured_ms)

\* What reset_work, the add_work calls and the drained queue leave in the
\* ring when the frame's tasks were each claimed and run once.
ItemsAfter(old_items, n_orders) ==
    [s \in DOMAIN old_items |->
        IF \E i \in 0..n_orders-1 : Slot(i) = s
        THEN SimWork(CHOOSE i \in 0..n_orders-1 :
                        Slot(i) = s /\ \A j \in 0..n_orders-1 : Slot(j) = s => j <= i)
        ELSE old_items[s]]

\* spatial_hash::rebuild as update_sim calls it. With no position at all
\* compute_domain reads position_x[0] of an empty array.
RebuiltHash(n, ps, uninit) ==
    IF n = 0 THEN [fault |-> TRUE, num_positions |-> 0]
    ELSE build(CellSizeArg, n, ps, uninit)

\* The input sets of the kernel runs: prior velocities (zero, tiny, the two
\* limits), neighbour results (none, small, far above g_max_acc), flags.
KernelVelocities == {-10000, 0, 10, 3000}
KernelResults == {-40000, 0, 1000}
KernelComponents == {0, SIM_COMPONENT_SPATIAL, SIM_COMPONENT_SPATIAL + SIM_COMPONENT_BOID}
KernelBehaviours == {0, BOID_TYPE_SEEK, BOID_TYPE_SEEK + BOID_TYPE_FLEE + BOID_TYPE_ALIGN}

NoInput == [measured_ms |-> 0, has_avx2 |-> FALSE, res |-> <<>>]

KernelInit ==
    /\ k_pc = "start"
    /\ k_axis = "x"
    /\ k_in = NoInput
    /\ num_entities = 0
    /\ components = <<>>
    /\ behaviours = <<>>
    /\ positions = <<>>
    /\ velocities = <<>>
    /\ current_time = 0
    /\ dt = InitialDt

\* init_sim, followed by whatever earlier frames made of the velocities: the
\* state one update_sim call starts from.
KSetup ==
    /\ k_pc = "start"
    /\ \E n \in 0..MaxKernelEntities : \E ax \in Axes :
       \E cs \in [0..n-1 -> KernelComponents] : \E bs \in [0..n-1 -> KernelBehaviours] :
       \E sp \in [0..n-1 -> KernelVelocities] :
          /\ num_entities' = n
          /\ k_axis' = ax
          /\ components' = cs
          /\ behaviours' = bs
          /\ velocities' = [i \in 0..n-1 |-> Along(ax, sp[i])]
          /\ positions' = [i \in 0..n-1 |-> Zero3]
    /\ k_pc' = "ready"
    /\ UNCHANGED <<k_in, current_time, dt, pvars, hvars>>

\* One iteration of the main loop up to the return of update_sim, with the
\* main thread running every chunk task itself inside wait_for_completion.
KFrame ==
    /\ k_pc \in {"ready", "updated"}
    /\ num_iterations < MaxKernelFrames
    /\ \E ms \in MeasuredMs : \E avx \in BOOLEAN :
       \E rs \in [0..num_entities-1 -> [seek : KernelResults, flee : {0}, align : {0}]] :
          LET delta_time == frame_dt(dt, ms)
              step == block_delta_time(delta_time)
              res == [i \in 0..num_entities-1 |->
                        [seek  |-> Along(k_axis, rs[i].seek),
                         flee  |-> Along(k_axis, rs[i].flee),
                         align |-> Along(k_axis, rs[i].align)]]
              new_vel == [i \in 0..num_entities-1 |->
                            force_pass(velocities[i], components[i], behaviours[i],
                                       res[i], step, avx)]
              new_pos == [i \in 0..num_entities-1 |->
                            position_pass(positions[i], new_vel[i], step)]
              n_orders == work_orders_for(num_entities, NumThreads)
          IN  /\ k_in' = [measured_ms |-> ms, has_avx2 |-> avx, res |-> res]
              /\ dt' = delta_time
              /\ current_time' = current_time + delta_time
              /\ num_iterations' = num_iterations + 1
              /\ velocities' = new_vel
              /\ positions' = new_pos
              /\ head' = n_orders
              /\ tail' = n_orders
              /\ items' = ItemsAfter(items, n_orders)
              /\ items_added' = n_orders
              /\ items_processed' = n_orders
              /\ active_threads' = 0
              /\ workCompleteEvent' = FALSE
              /\ workAvailableEvent' = TRUE
              /\ h_pc' = "built"
              /\ h_builds' = h_builds + 1
              /\ h_num' = num_entities
              /\ h_positions' = new_pos
              /\ hash' = RebuiltHash(num_entities, new_pos, h_uninit)
    /\ k_pc' = "updated"
    /\ UNCHANGED <<k_axis, num_entities, components, behaviours, shutdown,
                   pc, index, curr, task, seen, add_i, add_index, wait_exit,
                   advanced, gvars, h_uninit, h_query, h_result>>

KernelNext == KSetup \/ KFrame

----------------------------------------------------------------------------
(* boid_thread.h as a sequence of whole calls made by one thread (SpecApi):
   start_thread_pool, then add_work, execute_next_work_item and reset_work *)

MaxAdds == 6              \* add_work calls between two reset_work calls
WorkDescriptors == {0, 1} \* the data pointers handed to add_work

WorkItem(d) == [func |-> "work_func", data |-> d]

\* The pool Spec, SpecHash and SpecKernel run with: every thread was created.
Started ==
    /\ g_thread_pool = "live"
    /\ num_threads = NumThreads
    /\ threads = [i \in Workers |-> TRUE]
    /\ ret = 0

NotStarted ==
    /\ g_thread_pool = "null"
    /\ num_threads = 0
    /\ threads = <<>>
    /\ ret = 0

\* g_thread_pool->num_threads after the creation loop: each failed
\* CreateThread stores its i, the loop goes on.
threads_counted(requested, created) ==
    IF \A i \in 0..requested-1 : created[i] THEN requested
    ELSE CHOOSE i \in 0..requested-1 :
            ~created[i] /\ \A j \in 0..requested-1 : ~created[j] => j <= i

\* start_thread_pool(NumThreads, MaxWorkOrders). The allocations and the
\* event and thread creations succeed or fail as the system decides.
StartThreadPool ==
    /\ g_thread_pool = "null"
    /\ threads = <<>>
    /\ \/ \* malloc of the pool fails
          /\ ret' = U32 - 1
          /\ UNCHANGED <<g_thread_pool, num_threads, threads, qvars>>
       \/ \* an event or an array cannot be created: the pool is freed, the
          \* global keeps pointing at it
          /\ g_thread_pool' = "freed"
          /\ ret' = U32 - 1
          /\ UNCHANGED <<num_threads, threads, qvars>>
       \/ \E created \in [Workers -> BOOLEAN] :
             /\ g_thread_pool' = "live"
             /\ threads' = created
             /\ num_threads' = threads_counted(NumThreads, created)
             /\ ret' = 0
             /\ head' = 0
             /\ tail' = 0
             /\ items_processed' = 0
             /\ items_added' = 0
             /\ active_threads' = 0
             /\ shutdown' = 0
             /\ workCompleteEvent' = TRUE
             /\ workAvailableEvent' = FALSE
             /\ items' = [s \in 0..QueueSize-1 |-> Uninit]
    /\ UNCHANGED <<tvars, gvars, hvars, kvars>>

\* add_work(func, data): queue_try_add, then ResetEvent(workCompleteEvent)
AddWork ==
    /\ g_thread_pool = "live"
    /\ head < MaxAdds
    /\ \E d \in WorkDescriptors :
          items' = [items EXCEPT ![Slot(head)] = WorkItem(d)]
    /\ head' = head + 1
    /\ items_added' = items_added + 1
    /\ workAvailableEvent' = TRUE
    /\ workCompleteEvent' = FALSE
    /\ ret' = 0
    /\ UNCHANGED <<tail, items_processed, active_threads, shutdown, tvars, gvars,
                   hvars, kvars, g_thread_pool, num_threads, threads>>

\* execute_next_work_item(): queue_try_get and the call of the item
ExecuteNextWorkItem ==
    /\ g_thread_pool = "live"
    /\ tail < head
    /\ tail' = tail + 1
    /\ items_processed' = items_processed + 1
    /\ UNCHANGED <<head, items, items_added, active_threads, shutdown,
                   workCompleteEvent, workAvailableEvent, tvars, gvars, hvars,
                   kvars, avars>>

\* reset_work()
ResetWork ==
    /\ g_thread_pool = "live"
    /\ head > 0
    /\ head' = 0
    /\ tail' = 0
    /\ items_processed' = 0
    /\ items_added' = 0
    /\ active_threads' = 0
    /\ workCompleteEvent' = TRUE
    /\ workAvailableEvent' = FALSE
    /\ UNCHANGED <<items, shutdown, tvars, gvars, hvars, kvars, avars>>

ApiNext == StartThreadPool \/ AddWork \/ ExecuteNextWorkItem \/ ResetWork

----------------------------------------------------------------------------
(* memory_pool.h: allocate, get_bytes, reset and deallocate on one pool
   (SpecMemory) *)

pool_alignment == 32               \* the alignment asked of _aligned_malloc
ArenaBases == {0, 64, 96, 128}     \* what _aligned_malloc may return; 0 is NULL
ArenaSizes == {64, 100, 160}       \* size_bytes of allocate
\* bytes_to_get of get_bytes; U32 stands for 2^32, the width of u32
RequestSizes == {0, 4, 32, 40, 64, U32 - 32, U32 - 1}
MaxBlocks == 2                     \* blocks handed out between two resets

MemoryInit ==
    /\ pool_memory = 0
    /\ pool_size = 0
    /\ pool_offset = 0
    /\ ptr = 0
    /\ m_op = "none"
    /\ bytes_requested = 0
    /\ returned = {}

\* mpool::allocate(size_bytes)
allocate ==
    /\ pool_memory = 0
    /\ \E size_bytes \in ArenaSizes :
       \E memory \in {b \in ArenaBases : b % pool_alignment = 0} :
          /\ pool_memory' = memory
          /\ pool_size' = IF memory = 0 THEN 0 ELSE size_bytes
    /\ pool_offset' = 0
    /\ m_op' = "allocate"
    /\ returned' = {}
    /\ UNCHANGED <<ptr, bytes_requested>>

\* the size get_bytes works with: rounded up to a multiple of 32 in u32
rounded_bytes(bytes_to_get) ==
    IF bytes_to_get % 32 # 0
    THEN (bytes_to_get + (32 - (bytes_to_get % 32))) % U32
    ELSE bytes_to_get

\* mpool::get_bytes(pool, bytes_to_get)
get_bytes ==
    /\ Cardinality(returned) < MaxBlocks
    /\ \E bytes_to_get \in RequestSizes :
          LET bytes == rounded_bytes(bytes_to_get)
          IN  /\ bytes_requested' = bytes_to_get
              /\ m_op' = "get_bytes"
              /\ IF pool_memory = 0 \/ (pool_offset + bytes) % U32 > pool_size
                 THEN /\ ptr' = 0
                      /\ UNCHANGED <<pool_memory, pool_size, pool_offset, returned>>
                 ELSE /\ ptr' = pool_memory + pool_offset
                      /\ pool_offset' = (pool_offset + bytes) % U32
                      /\ returned' = returned \cup
                            {[at |-> pool_memory + pool_offset, bytes |-> bytes_to_get]}
                      /\ UNCHANGED <<pool_memory, pool_size>>

\* mpool::reset(pool)
reset ==
    /\ pool_memory # 0
    /\ pool_offset' = 0
    /\ m_op' = "reset"
    /\ returned' = {}
    /\ UNCHANGED <<pool_memory, pool_size, ptr, bytes_requested>>

\* mpool::deallocate(pool)
deallocate ==
    /\ pool_memory # 0
    /\ pool_memory' = 0
    /\ pool_size' = 0
    /\ pool_offset' = 0
    /\ m_op' = "deallocate"
    /\ returned' = {}
    /\ UNCHANGED <<ptr, bytes_requested>>

MemoryNext == allocate \/ get_bytes \/ reset \/ deallocate

----------------------------------------------------------------------------
(* simulation.h: the chunk ranges update_sim prepares, for any number of
   entities and of worker threads (SpecChunks) *)

MaxChunkEntities == 600   \* num_entities ranges over 1..MaxChunkEntities
MaxHwThreads == 2         \* num_threads ranges over 1..MaxHwThreads

\* u32 start_idx = i * num_entities_per_order;
start_idx(i, per_order) == i * per_order

\* the end_idx of descriptor i as the last line of a plausible slip would have
\* it: without the remainder given to the last chunk
end_idx_without_remainder(i, n, orders, per_order) == (i + 1) * per_order

\* u32 end_idx = (i == num_work_orders - 1) ? num_entities : (i + 1) * per_order;
end_idx(i, n, orders, per_order) ==
    IF i = orders - 1 THEN n ELSE (i + 1) * per_order

\* thread_data_array[0 .. num_work_orders) for n entities and hw_threads workers
prepared_chunks(n, hw_threads) ==
    LET orders    == work_orders_for(n, hw_threads)
        per_order == n \div orders
    IN  [i \in 0..orders-1 |->
            [start_index |-> start_idx(i, per_order),
             end_index   |-> end_idx(i, n, orders, per_order)]]

\* The other specifications run one fixed frame.
ChunksIdle ==
    /\ c_pc = "start"
    /\ c_entities = NumEntities
    /\ c_hw_threads = NumThreads
    /\ thread_data_array = <<>>

ChunksInit ==
    /\ c_pc = "start"
    /\ c_entities \in 1..MaxChunkEntities
    /\ c_hw_threads \in 1..MaxHwThreads
    /\ thread_data_array = <<>>

\* update_sim up to the end of its "prepare all tasks" loop
PrepareChunks ==
    /\ c_pc = "start"
    /\ thread_data_array' = prepared_chunks(c_entities, c_hw_threads)
    /\ c_pc' = "prepared"
    /\ UNCHANGED <<c_entities, c_hw_threads>>

ChunksNext == PrepareChunks

----------------------------------------------------------------------------
(* spatial_hash.h: the staging buffer local_result_indices of search, over the
   entries of the cells the query box covers (SpecStaging) *)

MAX_LOCAL_RESULTS == 2048
MaxMatches == 2056                 \* entries of the hash inside the query radius
LaneMasks == {0, 1, 128, 255}      \* mask_bits of one block of 8 entries

\* _mm_popcnt_u32 of an 8-bit mask
RECURSIVE popcnt(_)
popcnt(bits) == IF bits = 0 THEN 0 ELSE (bits % 2) + popcnt(bits \div 2)

\* the index of the store made for lane 7: the count before the block plus the
\* matching lanes 0..6
last_lane_store(count, mask_bits) == count + popcnt(mask_bits % 128)

StagingInit ==
    /\ s_pc = "scan"
    /\ local_result_count = 0
    /\ result_count = 0
    /\ max_store = -1

\* one iteration of the "full vector blocks" loop: the flush test, then the
\* eight unconditional stores
AvxBlock ==
    /\ s_pc = "scan"
    /\ \E mask_bits \in LaneMasks :
          LET count_to_add == popcnt(mask_bits)
              flush   == local_result_count + count_to_add > MAX_LOCAL_RESULTS
              count   == IF flush THEN 0 ELSE local_result_count
              reported == IF flush THEN result_count + local_result_count
                          ELSE result_count
          IN  /\ result_count + local_result_count + count_to_add <= MaxMatches
              /\ result_count' = reported
              /\ max_store' = last_lane_store(count, mask_bits)
              /\ local_result_count' = count + count_to_add
              /\ s_pc' = IF last_lane_store(count, mask_bits) >= MAX_LOCAL_RESULTS
                         THEN "fault" ELSE "scan"

\* one iteration of the scalar loop over the last entries of a cell
ScalarEntry ==
    /\ s_pc = "scan"
    /\ \E within \in BOOLEAN :
          IF ~within
          THEN UNCHANGED <<local_result_count, result_count, max_store>>
          ELSE /\ result_count + local_result_count + 1 <= MaxMatches
               /\ IF local_result_count < MAX_LOCAL_RESULTS
                  THEN /\ max_store' = local_result_count
                       /\ local_result_count' = local_result_count + 1
                       /\ UNCHANGED result_count
                  ELSE /\ result_count' = result_count + local_result_count
                       /\ max_store' = 0
                       /\ local_result_count' = 1
    /\ UNCHANGED s_pc

\* after the loops: the remaining results are copied out
SearchEnd ==
    /\ s_pc = "scan"
    /\ result_count' = result_count + local_result_count
    /\ s_pc' = "done"
    /\ UNCHANGED <<local_result_count, max_store>>

StagingNext == AvxBlock \/ ScalarEntry \/ SearchEnd

----------------------------------------------------------------------------
(* The specifications *)

Init == PoolInit /\ HashInit /\ KernelInit /\ Started /\ MemoryInit /\ ChunksIdle /\ StagingInit
Next == PoolNext /\ UNCHANGED <<hvars, kvars, avars, mvars, cvars, svars>>
Spec == Init /\ [][Next]_vars

HashSpecNext == HashNext /\ UNCHANGED <<pvars, kvars, avars, mvars, cvars, svars>>
SpecHash == Init /\ [][HashSpecNext]_vars

KernelSpecNext == KernelNext /\ UNCHANGED <<avars, mvars, cvars, svars>>
SpecKernel == Init /\ [][KernelSpecNext]_vars

\* start_thread_pool(1, max_work_orders): worker 0 is the only worker; the
\* main thread still consumes inside wait_for_completion.
OneWorkerNext ==
    /\ \/ \E c \in {0, MAIN} : Consumer(c)
       \/ Worker(0)
       \/ MainThread
    /\ UNCHANGED <<hvars, kvars, avars, mvars, cvars, svars>>
SpecOneWorker == Init /\ [][OneWorkerNext]_vars

\* Before start_thread_pool: no pool, the queue fields hold nothing yet.
ApiInit ==
    PoolInit /\ HashInit /\ KernelInit /\ NotStarted /\ MemoryInit /\ ChunksIdle /\ StagingInit
ApiSpecNext == ApiNext /\ UNCHANGED <<mvars, cvars, svars>>
SpecApi == ApiInit /\ [][ApiSpecNext]_vars

MemorySpecNext == MemoryNext /\ UNCHANGED <<pvars, hvars, kvars, avars, cvars, svars>>
SpecMemory == Init /\ [][MemorySpecNext]_vars

\* Any number of entities, any number of workers, the pool started.
ChunksSpecInit ==
    PoolInit /\ HashInit /\ KernelInit /\ Started /\ MemoryInit /\ ChunksInit /\ StagingInit
ChunksSpecNext == ChunksNext /\ UNCHANGED <<pvars, hvars, kvars, avars, mvars, svars>>
SpecChunks == ChunksSpecInit /\ [][ChunksSpecNext]_vars

StagingSpecNext ==
    StagingNext /\ UNCHANGED <<pvars, hvars, kvars, avars, mvars, cvars>>
SpecStaging == Init /\ [][StagingSpecNext]_vars

\* One worker and the main loop running update_sim frame after frame.
FramesNext ==
    /\ \/ \E c \in {0, MAIN} : Consumer(c)
       \/ Worker(0)
       \/ MainThread
       \/ NextFrame
    /\ UNCHANGED <<hvars, kvars, avars, mvars, cvars, svars>>
SpecFrames == Init /\ [][FramesNext]_vars

\* The frame, then shutdown_thread_pool. A thread whose next step reads the
\* pool after it was freed faults there and goes no further.
ShutdownNext ==
    /\ \/ g_thread_pool = "live" /\ PoolNext /\ UNCHANGED avars
       \/ shutdown_thread_pool
    /\ UNCHANGED <<hvars, kvars, mvars, cvars, svars>>
SpecShutdown == Init /\ [][ShutdownNext]_vars

----------------------------------------------------------------------------
(* Claims about the work queue and the frame (checked under Spec) *)

InQueueTryGet(c) == pc[c] \in {"get_check", "get_claim", "get_verify", "get_undo"}
Running(c) == pc[c] \in {"force", "move"}
Holding(c) == pc[c] \in {"activate", "call", "force", "move", "fault"}
WaitReturned == pc[MAIN] = "rebuild"

\* C1: between two reset_work calls no queue index is handed out by
\* queue_try_get to two consumers, so no submitted item is invoked twice.
C1_IndexClaimedAtMostOnce ==
    \A k \in Indices : claimed[k] <= 1

\* C2: when wait_for_completion returns without its timeout having elapsed,
\* every item submitted before the call has finished: none is unclaimed and
\* none is held or being run by a consumer, a worker that has claimed an item
\* but not yet incremented active_threads included.
C2_WaitReturnsAfterAllItemsFinished ==
    (WaitReturned /\ wait_exit # "timeout") =>
        /\ \A i \in Orders : finished[i] >= 1
        /\ \A c \in Consumers : ~Holding(c)

\* C3: a consumer that claimed queue index k invokes the (func, data) pair
\* stored by the add_work call that obtained index k.
C3_ConsumerInvokesTheSubmittedItem ==
    \A c \in Consumers :
        Running(c) \/ pc[c] = "fault" =>
            called[c].item = submitted[called[c].index]

\* C4: once the queue is quiescent (tail >= head, no consumer inside
\* queue_try_get) every index in [0, head) has been claimed by exactly one
\* consumer: the undo of a consumer that raced past head skips no index.
C4_NoIndexSkippedAtQuiescence ==
    (tail >= head /\ \A c \in Consumers : ~InQueueTryGet(c)) =>
        \A k \in 0..head-1 : claimed[k] = 1

\* C9: every position read by a force pass has the value it had when
\* update_sim was called: no position pass has advanced it yet.
C9_ForcePassReadsFrameStartPositions ==
    \A c \in Consumers : pc[c] = "move" => seen[c] = 0

\* C10: rebuild runs only after every chunk task of the same update_sim has
\* finished both passes, and no chunk task runs while it does.
C10_RebuildAfterAllChunkTasks ==
    pc[MAIN] = "rebuilding" =>
        /\ \A i \in Orders : finished[i] >= 1
        /\ \A c \in Consumers : ~Running(c)

\* The positions array as the force pass of chunk task i finds it when the
\* single worker runs the tasks one after the other in queue order: the
\* chunks before i advanced once, the others not yet.
InOrderPositions(i) == [j \in Orders |-> IF j < i THEN 1 ELSE 0]

\* C12: with one worker, two runs of update_sim from the same sim_data and dt
\* give the same velocities and positions under every scheduling: every force
\* pass reads the positions the in-order run of the worker lets it read.
C12_OneWorkerRunsAgree ==
    [][\A c \in {0, MAIN} : ForcePass(c) => advanced = InOrderPositions(task[c])]_vars

\* C19: the wait_for_completion call of update_sim never returns because the
\* timeout elapsed while submitted work is outstanding: it leaves its loop by
\* the timeout only when the queue is empty and no worker is active.
C19_NoTimeoutReturnWithWorkOutstanding ==
    [][(pc[MAIN] = "wait_backoff" /\ wait_exit' = "timeout") => Drained]_vars

\* Queue index a has been taken from tail by a consumer: its claim is counted,
\* or the consumer holding it is about to test it against head.
Obtained(a) ==
    \/ claimed[a] >= 1
    \/ \E c \in Consumers : pc[c] = "get_verify" /\ index[c] = a

\* C22: items are claimed in submission order within one reset epoch: when the
\* item at queue index b has been claimed, every item submitted before it (at
\* an index a < b) has been claimed or is in the hands of a consumer.
C22_ClaimsInSubmissionOrder ==
    \A a, b \in Indices :
        (0 <= a /\ a < b /\ claimed[b] >= 1) => Obtained(a)

\* The main thread has submitted the frame's items and is inside
\* wait_for_completion.
InWait ==
    pc[MAIN] \in {"wait_first", "get_check", "get_claim", "get_verify", "get_undo",
                  "call", "force", "move", "wait_check", "wait_backoff"}

\* C26: workCompleteEvent is signaled only while the queue is empty and no
\* worker is at work: once the items are submitted, the event is never
\* signaled while a submitted item is unclaimed or in the hands of a worker.
C26_EventSignaledOnlyWhenDrained ==
    (InWait /\ workCompleteEvent) =>
        /\ ~work_remaining
        /\ active_threads = 0
        /\ \A w \in Workers : ~Holding(w)

\* Worker w is between its increment and its decrement of active_threads.
Counted(w) == pc[w] \in {"call", "force", "move", "fault", "deactivate"}

\* C29: active_threads always equals the number of workers that are between
\* their increment and their decrement of the counter (so it is never negative
\* and is 0 when every worker is idle), across the reset_work of every frame.
C29_ActiveThreadsCountsWorkers ==
    active_threads = Cardinality({w \in Workers : Counted(w)})

\* C30: shutdown_thread_pool frees the queue, the worker arenas and the pool
\* structure only after every worker has left thread_function: once the pool
\* is freed no worker is inside thread_function any more.
C30_FreedOnlyAfterWorkersLeft ==
    g_thread_pool # "live" => AllExited

----------------------------------------------------------------------------
(* Claims about the pool's calls (checked under SpecApi) *)

RingFull == head - tail >= QueueSize

\* C13: add_work never overwrites a ring slot whose item was submitted and not
\* yet claimed: with head - tail at the capacity no item is stored and head
\* does not advance.
C13_FullRingIsNotOverwritten ==
    [][RingFull => (items' = items /\ head' <= head)]_vars

\* start_thread_pool ran its creation loop and some CreateThread failed
CreationFailed == threads # <<>> /\ \E i \in DOMAIN threads : ~threads[i]

\* C14: when the creation of any worker thread fails, start_thread_pool
\* returns a non-zero error code and leaves no pool behind that the caller
\* could use.
C14_FailedCreationIsReported ==
    CreationFailed => (ret # 0 /\ g_thread_pool # "live")

----------------------------------------------------------------------------
(* Claims about the kernel and the frame driver (checked under SpecKernel) *)

Updated == k_pc = "updated"
Boid(i) ==
    /\ HasFlag(components[i], SIM_COMPONENT_SPATIAL)
    /\ \/ HasFlag(behaviours[i], BOID_TYPE_SEEK)
       \/ HasFlag(behaviours[i], BOID_TYPE_FLEE)
       \/ HasFlag(behaviours[i], BOID_TYPE_ALIGN)

\* C11: after update_sim every agent with the SPATIAL component and an active
\* SEEK, FLEE or ALIGN behaviour has g_min_vel <= |velocity| <= g_max_vel.
C11_VelocityEnvelope ==
    Updated =>
        \A i \in 0..num_entities-1 :
            Boid(i) => /\ g_min_vel <= v3_length(velocities[i])
                       /\ v3_length(velocities[i]) <= g_max_vel

\* C15: update_sim on a simulation with num_entities = 0 returns without
\* touching any state: current_time, num_iterations, the entity arrays, the
\* spatial hash and the queue's head, tail and items all stay as they were.
C15_EmptySimulationUntouched ==
    [][(num_entities = 0 /\ k_pc' = "updated") =>
          UNCHANGED <<current_time, num_iterations, positions, velocities,
                      components, behaviours, hash, head, tail, items>>]_vars

\* C17: for every dt passed to update_sim, each agent's velocity changes by its
\* clamped acceleration times that dt, and its position after the call is its
\* previous position plus its new velocity times that same dt.
C17_StepIsCallersDt ==
    [][k_pc' = "updated" =>
          \A i \in 0..num_entities-1 :
             /\ velocities'[i] = force_pass(velocities[i], components[i], behaviours[i],
                                            k_in'.res[i], dt', k_in'.has_avx2)
             /\ positions'[i] = position_pass(positions[i], velocities'[i], dt')]_vars

\* C18: in every iteration of the main loop the dt passed to update_sim is at
\* least the driver's minimum of 0.016 s, whatever time was measured.
C18_DtAtLeastMinimum == Updated => dt >= MinDt

\* C23: update_sim changes velocity and position only for agents whose
\* components include SIM_COMPONENT_SPATIAL: an agent without that component
\* has the same velocity and the same position after the call as before it.
C23_OnlySpatialAgentsMove ==
    [][k_pc' = "updated" =>
          \A i \in 0..num_entities-1 :
             ~HasFlag(components[i], SIM_COMPONENT_SPATIAL) =>
                 /\ velocities'[i] = velocities[i]
                 /\ positions'[i] = positions[i]]_vars

----------------------------------------------------------------------------
(* Claims about the spatial hash (checked under SpecHash) *)

DistSq(p, q) == (p.x - q.x) * (p.x - q.x) + (p.y - q.y) * (p.y - q.y)
                + (p.z - q.z) * (p.z - q.z)

Reported == {h_result[k] : k \in 1..Len(h_result)}

WithinRadius ==
    {i \in 0..h_num-1 :
        DistSq(h_positions[i], h_query.position) <= h_query.radius * h_query.radius}

HashBuilt == h_pc \in {"built", "searched"} /\ ~hash.fault

StoredPosition(k) ==
    [x |-> hash.position_x[k], y |-> hash.position_y[k], z |-> hash.position_z[k]]

CellRange(c) == {k \in 0..h_num-1 : hash.cell_start[c] <= k /\ k < hash.cell_end[c]}

\* C5: after init or rebuild, a search with radius > 0 reports exactly the
\* caller indices of the positions within the radius of the query point (the
\* ones at distance exactly the radius included).
C5_SearchReportsExactlyTheNeighbours ==
    h_pc = "searched" => Reported = WithinRadius

\* C6: after init or rebuild of N positions, original_ids[0..N) is a
\* permutation of 0..N-1: every caller index sits at exactly one slot.
C6_OriginalIdsIsPermutation ==
    HashBuilt =>
        \A i \in 0..h_num-1 :
            Cardinality({k \in 0..h_num-1 : hash.original_ids[k] = i}) = 1

\* C7: after init or rebuild, every reordered index in the range of cell c
\* holds a position that maps to c, the ranges of distinct cells are disjoint
\* and their union is [0, N).
C7_CellRangesPartitionByCell ==
    HashBuilt =>
        /\ \A c \in 0..hash.num_cells-1 : \A k \in CellRange(c) :
               cell_value(hash, StoredPosition(k)) = c
        /\ \A c, d \in 0..hash.num_cells-1 :
               c # d => CellRange(c) \cap CellRange(d) = {}
        /\ UNION {CellRange(c) : c \in 0..hash.num_cells-1} = 0..h_num-1

\* C8: the indices one search writes to the output buffer are pairwise
\* distinct, after init and after every rebuild.
C8_SearchOutputDistinct ==
    h_pc = "searched" =>
        \A j, k \in 1..Len(h_result) : j # k => h_result[j] # h_result[k]

\* The positions handed to a build are all the same point
AllIdentical(ps) == \A i, j \in DOMAIN ps : ps[i] = ps[j]

\* C16: rebuild called with all positions identical (a degenerate domain)
\* leaves the hash's previous state untouched: position arrays, original_ids,
\* cell ranges, grid sizes and domain are what they were before the call.
C16_DegenerateRebuildLeavesHash ==
    [][(h_builds >= 1 /\ h_builds' = h_builds + 1 /\ AllIdentical(h_positions'))
          => hash' = hash]_vars

\* The caller's positions that fall into cell c
AgentsInCell(c) == {i \in 0..h_num-1 : cell_value(hash, h_positions[i]) = c}

\* C24: after init or rebuild, cell_start[c] = 0xFFFFFFFF holds exactly for the
\* cells c that contain no agent, and every cell that contains at least one
\* agent has cell_start[c] < cell_end[c].
C24_EmptyCellsKeepSentinel ==
    HashBuilt =>
        \A c \in 0..hash.num_cells-1 :
            /\ (hash.cell_start[c] = U32 - 1) <=> (AgentsInCell(c) = {})
            /\ AgentsInCell(c) # {} => hash.cell_start[c] < hash.cell_end[c]

\* C28: after set_grid_sizes every grid size is >= 1, and for every agent
\* position the cell coordinates lie inside the grid and the cell index lies in
\* [0, num_cells), with no 32-bit wrap-around, also when the positions have
\* zero extent along an axis.
C28_CellIndexInBounds ==
    h_pc \in {"built", "searched"} =>
        /\ \A a \in Axes : hash.grid_size[a] >= 1
        /\ \A i \in 0..h_num-1 :
              /\ \A a \in Axes :
                    get_cell_coordinates(hash, h_positions[i])[a] < hash.grid_size[a]
              /\ cell_value(hash, h_positions[i]) < hash.num_cells

----------------------------------------------------------------------------
(* Claims about the memory pool (checked under SpecMemory) *)

\* C20: every non-null pointer returned by get_bytes is 64-byte aligned, after
\* any sequence of allocate, get_bytes and reset.
C20_ReturnedPointersAligned64 == ptr # 0 => ptr % 64 = 0

\* n rounded up to the pool's alignment, as a number (no 32-bit wrap)
aligned(n) == ((n + pool_alignment - 1) \div pool_alignment) * pool_alignment

\* C21: get_bytes(pool, n) returns NULL and leaves offset unchanged exactly
\* when offset + aligned(n) exceeds size, for every 32-bit n; on success offset
\* advances by at least n, stays <= size, and the returned block overlaps no
\* block returned since the last reset.
C21_GetBytesBoundsAndDisjoint ==
    [][(m_op' = "get_bytes" /\ pool_memory # 0) =>
          /\ (ptr' = 0) <=> (pool_offset + aligned(bytes_requested') > pool_size)
          /\ ptr' = 0 => pool_offset' = pool_offset
          /\ ptr' # 0 =>
                /\ pool_offset' - pool_offset >= bytes_requested'
                /\ pool_offset' <= pool_size
                /\ \A b \in returned :
                      \/ ptr' + bytes_requested' <= b.at
                      \/ b.at + b.bytes <= ptr']_vars

----------------------------------------------------------------------------
(* Claims about the chunk ranges (checked under SpecChunks) *)

Prepared == c_pc = "prepared"

\* The chunk descriptors whose range [start_index, end_index) holds agent a
ChunksOf(a) ==
    {i \in DOMAIN thread_data_array :
        thread_data_array[i].start_index <= a /\ a < thread_data_array[i].end_index}

\* C25: for every N >= 1 and every worker count >= 1 the chunk ranges that
\* update_sim submits are pairwise disjoint and their union is [0, N): every
\* agent index belongs to exactly one chunk task, and no range leaves [0, N).
C25_ChunksPartitionAgents ==
    Prepared =>
        /\ \A a \in 0..c_entities-1 : Cardinality(ChunksOf(a)) = 1
        /\ \A i \in DOMAIN thread_data_array :
              /\ 0 <= thread_data_array[i].start_index
              /\ thread_data_array[i].start_index <= thread_data_array[i].end_index
              /\ thread_data_array[i].end_index <= c_entities

\* Several chunks, and entities left over that only the last chunk takes
C25_Witness ==
    /\ Prepared
    /\ Cardinality(DOMAIN thread_data_array) >= 2
    /\ c_entities % Cardinality(DOMAIN thread_data_array) # 0

----------------------------------------------------------------------------
(* Claims about the staging buffer of search (checked under SpecStaging) *)

\* C27: every store into local_result_indices uses an index below
\* MAX_LOCAL_RESULTS, the unconditional stores made for the non-matching lanes
\* of a block of 8 included.
C27_StagingStoresInBounds == max_store < MAX_LOCAL_RESULTS

====
